---- MODULE Spec2Model ----
(***************************************************************************)
(* A model of anymail/utils.py: the value mergers combine and last, the    *)
(* dict helper getfirst, Attachment.__init__, get_anymail_setting and      *)
(* collect_all_methods.                                                    *)
(*                                                                         *)
(* Every helper is a single synchronous call.  Each specification below    *)
(* draws the call's inputs in its initial state and has one action per     *)
(* function, which runs the whole function body.                           *)
(*                                                                         *)
(* Python values are tagged records, so that UNSET, None and real values   *)
(* are pairwise distinct and can be compared.  Mutable objects live on a   *)
(* heap and are named by reference, so that copying, aliasing and in-place *)
(* update are different things in the model, as they are in Python.        *)
(***************************************************************************)
EXTENDS Integers, Sequences, FiniteSets, TLC

VARIABLES
    \* combine / last
    args,           \* the positional arguments: UNSET, None or a reference
    heap,           \* object id -> object, the caller's objects and new ones
    list_has_copy,  \* whether the interpreter's list type has .copy()
    combineResult,  \* what combine(*args) returned, Pending before the call
    lastResult,     \* what last(*args) returned, Pending before the call
    pc,             \* "call" before the function ran, "done" after
    \* getfirst and get_anymail_setting
    dct, keys,      \* getfirst's dct and keys
    default,        \* the default argument (getfirst, get_anymail_setting)
    result,         \* the outcome: a returned value or a raised exception
    name, esp_name, kwargs, allow_bare,   \* get_anymail_setting's arguments
    settings,       \* django.conf.settings: ANYMAIL mapping and attributes
    \* Attachment
    attachment,     \* the constructor's argument: a tuple or a MIMEBase
    self,           \* the Attachment object's fields
    \* collect_all_methods
    bases,          \* class -> its tuple of base classes
    defines,        \* the classes whose body defines method_name
    cls,            \* the class asked about
    methods         \* the returned list

mergeVars == <<args, heap, list_has_copy, combineResult, lastResult>>
argVars == <<dct, keys, default, result, name, esp_name, kwargs, allow_bare,
             settings>>
callVars == <<pc, argVars>>
attachmentVars == <<attachment, self>>
methodVars == <<bases, defines, cls, methods>>
vars == <<mergeVars, callVars, attachmentVars, methodVars>>

-----------------------------------------------------------------------------
(* Python values *)

UNSET == [t |-> "UNSET"]
None == [t |-> "None"]
Pending == [t |-> "pending"]
Ref(id) == [t |-> "ref", id |-> id]
Str(s) == [t |-> "str", s |-> s]
Return(v) == [kind |-> "return", value |-> v]
Raise(exc, message) == [kind |-> "raise", exc |-> exc, message |-> message]

IsRef(v) == v.t = "ref"

RECURSIVE SetMax(_)
SetMax(S) ==
    LET x == CHOOSE y \in S : TRUE
    IN  IF S = {x} THEN x
        ELSE LET m == SetMax(S \ {x}) IN IF x > m THEN x ELSE m

-----------------------------------------------------------------------------
(* Bounds and the sample values the inputs are drawn from *)

MaxArgs == 4

DictKeys == {"a", "b"}
DictVals == {1, 2}
DictObjects ==
    UNION {[K -> DictVals] : K \in SUBSET DictKeys}
ListObjects == {<<>>, <<1>>, <<2>>, <<1, 2>>}
IntObjects == {0, 1, 2}

DictObj(f) == [cls |-> "dict", items |-> f]
ListObj(s) == [cls |-> "list", elems |-> s]
IntObj(n) == [cls |-> "int", val |-> n]

ObjectsOf(kind) ==
    CASE kind = "dict" -> {DictObj(f) : f \in DictObjects}
      [] kind = "list" -> {ListObj(s) : s \in ListObjects}
      [] kind = "int" -> {IntObj(n) : n \in IntObjects}

SeqsUpTo(S, n) == UNION {[1..k -> S] : k \in 0..n}

-----------------------------------------------------------------------------
(* combine *)

Alloc(h, obj) ==
    LET id == SetMax(DOMAIN h \cup {MaxArgs}) + 1
    IN  [ref |-> Ref(id), heap |-> (id :> obj) @@ h]

\* value.copy(): dicts have it, ints do not, lists only on Python 3
HasCopy(obj, listCopy) ==
    \/ obj.cls = "dict"
    \/ obj.cls = "list" /\ listCopy

\* result.update(value): only dicts have it
HasUpdate(obj) == obj.cls = "dict"

\* dict.update: key-value union, value's keys overwrite
DictUpdate(d, e) ==
    [k \in DOMAIN d \cup DOMAIN e |-> IF k \in DOMAIN e THEN e[k] ELSE d[k]]

\* result + value, for lists and for ints
Add(x, y) ==
    IF x.cls = "list" THEN ListObj(x.elems \o y.elems)
    ELSE IntObj(x.val + y.val)

\* a faulty start that takes the value itself and never copies it
CombineStartNoCopy(acc, value, listCopy) ==
    [result |-> value, heap |-> acc.heap]

\* lines 38-42: the first value after a reset; a copy if the value has
\* .copy(), else the value itself
CombineStart(acc, value, listCopy) ==
    IF HasCopy(acc.heap[value.id], listCopy)
    THEN LET a == Alloc(acc.heap, acc.heap[value.id])
         IN  [result |-> a.ref, heap |-> a.heap]
    ELSE [result |-> value, heap |-> acc.heap]

\* a faulty merge with the operands swapped: earlier keys win, later
\* elements come first
CombineMergeKeepOld(acc, value) ==
    IF HasUpdate(acc.heap[acc.result.id])
    THEN [result |-> acc.result,
          heap |-> [acc.heap EXCEPT ![acc.result.id].items =
                        DictUpdate(acc.heap[value.id].items, @)]]
    ELSE LET a == Alloc(acc.heap,
                        Add(acc.heap[value.id], acc.heap[acc.result.id]))
         IN  [result |-> a.ref, heap |-> a.heap]

\* lines 43-47: a further value; update in place if the result has
\* .update(), else a new object result + value
CombineMerge(acc, value) ==
    IF HasUpdate(acc.heap[acc.result.id])
    THEN [result |-> acc.result,
          heap |-> [acc.heap EXCEPT ![acc.result.id].items =
                        DictUpdate(@, acc.heap[value.id].items)]]
    ELSE LET a == Alloc(acc.heap,
                        Add(acc.heap[acc.result.id], acc.heap[value.id]))
         IN  [result |-> a.ref, heap |-> a.heap]

\* a faulty reset that keeps the earlier values
CombineResetIgnored(acc) == acc

\* lines 34-36: None suppresses the earlier values
CombineReset(acc) == [result |-> UNSET, heap |-> acc.heap]

\* the loop body, lines 34-47
CombineStep(acc, value, listCopy) ==
    IF value = None THEN CombineReset(acc)
    ELSE IF value # UNSET
    THEN IF acc.result = UNSET THEN CombineStart(acc, value, listCopy)
         ELSE CombineMerge(acc, value)
    ELSE acc

\* the loop over args[i..], lines 33-47
RECURSIVE CombineLoop(_, _, _, _)
CombineLoop(acc, as, i, listCopy) ==
    IF i > Len(as) THEN acc
    ELSE CombineLoop(CombineStep(acc, as[i], listCopy), as, i + 1, listCopy)

combine(as, h, listCopy) ==
    CombineLoop([result |-> UNSET, heap |-> h], as, 1, listCopy)

-----------------------------------------------------------------------------
(* last *)

\* the loop over reversed(args), lines 64-70; i runs from Len(as) down
RECURSIVE LastLoop(_, _)
LastLoop(as, i) ==
    IF i = 0 THEN UNSET
    ELSE IF as[i] = None THEN UNSET
    ELSE IF as[i] # UNSET THEN as[i]
    ELSE LastLoop(as, i - 1)

\* a faulty last that looks past a None for an earlier value
RECURSIVE LastLoopSkipsNone(_, _)
LastLoopSkipsNone(as, i) ==
    IF i = 0 THEN UNSET
    ELSE IF as[i] \notin {None, UNSET} THEN as[i]
    ELSE LastLoopSkipsNone(as, i - 1)

lastSkipsNone(as) == LastLoopSkipsNone(as, Len(as))

last(as) == LastLoop(as, Len(as))

-----------------------------------------------------------------------------
(* The states in which a family of variables is not in use *)

IdleMerge ==
    /\ args = <<>>
    /\ heap = <<>>
    /\ list_has_copy = TRUE
    /\ combineResult = Pending
    /\ lastResult = Pending

IdleSetting ==
    /\ name = ""
    /\ esp_name = None
    /\ kwargs = None
    /\ allow_bare = FALSE
    /\ settings = <<>>

IdleGetfirst ==
    /\ dct = <<>>
    /\ keys = <<>>

IdleArgs ==
    /\ default = UNSET
    /\ result = Pending
    /\ IdleGetfirst
    /\ IdleSetting

IdleCall == pc = "idle" /\ IdleArgs

IdleAttachment ==
    /\ attachment = None
    /\ self = Pending

IdleMethods ==
    /\ bases = <<>>
    /\ defines = {}
    /\ cls = 0
    /\ methods = <<>>

-----------------------------------------------------------------------------
(* combine and last called on the same arguments *)

\* The real arguments of one call are all mappings, all sequences or all
\* integers; argument i, when real, is the object heap[i].
MergeKinds == {"dict", "list", "int"}

IsReal(v) == v \notin {UNSET, None}

InitMerge ==
    /\ \E kind \in MergeKinds :
         \E lits \in SeqsUpTo({UNSET, None} \cup ObjectsOf(kind), MaxArgs) :
            /\ args = [i \in 1..Len(lits) |->
                          IF IsReal(lits[i]) THEN Ref(i) ELSE lits[i]]
            /\ heap = [i \in {j \in 1..Len(lits) : IsReal(lits[j])} |-> lits[i]]
            /\ list_has_copy \in (IF kind = "list" THEN BOOLEAN ELSE {TRUE})
    /\ combineResult = Pending
    /\ lastResult = Pending
    /\ IdleCall /\ IdleAttachment /\ IdleMethods

Combine ==
    /\ combineResult = Pending
    /\ LET out == combine(args, heap, list_has_copy)
       IN  /\ combineResult' = out.result
           /\ heap' = out.heap
    /\ UNCHANGED <<args, list_has_copy, lastResult>>
    /\ UNCHANGED <<callVars, attachmentVars, methodVars>>

Last ==
    /\ lastResult = Pending
    /\ lastResult' = last(args)
    /\ UNCHANGED <<args, heap, list_has_copy, combineResult>>
    /\ UNCHANGED <<callVars, attachmentVars, methodVars>>

NextMerge == Combine \/ Last

SpecMerge == InitMerge /\ [][NextMerge]_vars

-----------------------------------------------------------------------------
(* getfirst *)

MaxKeys == 3

IntVal(n) == [t |-> "int", v |-> n]

GfKeys == {"a", "b", "c"}
GfValues == {IntVal(1), IntVal(2), None}
GfDefaults == {UNSET, None, IntVal(0)}

\* sep.join(parts), as the sequence of its pieces
RECURSIVE Join(_, _)
Join(parts, sep) ==
    IF Len(parts) = 0 THEN <<>>
    ELSE IF Len(parts) = 1 THEN parts
    ELSE <<Head(parts), sep>> \o Join(Tail(parts), sep)

NotFound == [kind |-> "notfound"]

\* a faulty loop that keeps looking and so returns the last key found
RECURSIVE GetfirstLoopKeepsLooking(_, _, _)
GetfirstLoopKeepsLooking(d, ks, i) ==
    IF i > Len(ks) THEN NotFound
    ELSE LET rest == GetfirstLoopKeepsLooking(d, ks, i + 1)
         IN  IF rest # NotFound THEN rest
             ELSE IF ks[i] \in DOMAIN d THEN Return(d[ks[i]])
             ELSE NotFound

\* lines 85-89: return dct[key] for the first key that does not raise KeyError
RECURSIVE GetfirstLoop(_, _, _)
GetfirstLoop(d, ks, i) ==
    IF i > Len(ks) THEN NotFound
    ELSE IF ks[i] \in DOMAIN d THEN Return(d[ks[i]])
    ELSE GetfirstLoop(d, ks, i + 1)

\* lines 73-93
getfirst(d, ks, dflt) ==
    LET found == GetfirstLoop(d, ks, 1)
    IN  IF found # NotFound THEN found
        ELSE IF dflt = UNSET
        THEN Raise("KeyError",
                   <<"None of ">> \o Join(ks, ", ") \o <<" found in dict">>)
        ELSE Return(dflt)

InitGetfirst ==
    /\ pc = "call"
    /\ dct \in UNION {[K -> GfValues] : K \in SUBSET GfKeys}
    /\ keys \in SeqsUpTo(GfKeys, MaxKeys)
    /\ default \in GfDefaults
    /\ result = Pending
    /\ IdleSetting /\ IdleMerge /\ IdleAttachment /\ IdleMethods

Getfirst ==
    /\ pc = "call"
    /\ result' = getfirst(dct, keys, default)
    /\ pc' = "done"
    /\ UNCHANGED <<dct, keys, default, name, esp_name, kwargs, allow_bare,
                   settings>>
    /\ UNCHANGED <<mergeVars, attachmentVars, methodVars>>

NextGetfirst == Getfirst

SpecGetfirst == InitGetfirst /\ [][NextGetfirst]_vars

\* C6: getfirst returns the value under the earliest key of keys present in
\* the mapping, whatever later keys are present too; when none is present it
\* returns the default if one was given (None included), and otherwise raises
\* KeyError with a message that names all the attempted keys.
C6_GetfirstEarliestKey ==
    pc = "done" =>
        LET P == {i \in 1..Len(keys) : keys[i] \in DOMAIN dct}
        IN  IF P # {}
            THEN \E i \in P : /\ \A j \in P : i <= j
                              /\ result = Return(dct[keys[i]])
            ELSE IF default # UNSET THEN result = Return(default)
            ELSE /\ result.kind = "raise"
                 /\ result.exc = "KeyError"
                 /\ SelectSeq(result.message, LAMBDA t : t \in GfKeys) = keys

\* getfirst({'a': 1, 'b': 2}, ['c', 'a', 'b']) has returned 1
C6_Witness ==
    /\ pc = "done"
    /\ keys = <<"c", "a", "b">>
    /\ DOMAIN dct = {"a", "b"}
    /\ dct["a"] = IntVal(1) /\ dct["b"] = IntVal(2)
    /\ result = Return(IntVal(1))

-----------------------------------------------------------------------------
(* get_anymail_setting *)

SettingArgNames == {"api_key", "username", "password"}
EspNames == {None, Str("SendGrid")}
OtherKwarg == "fail_silently"
SettingDefaults == {UNSET, None, Str("default")}

\* str.upper() on the strings the model uses
Upper(s) ==
    CASE s = "api_key" -> "API_KEY"
      [] s = "username" -> "USERNAME"
      [] s = "password" -> "PASSWORD"
      [] s = "SendGrid" -> "SENDGRID"
      [] OTHER -> s

\* lines 214-217
SettingName(nm, esp) ==
    IF esp # None THEN Upper(esp.s) \o "_" \o Upper(nm)
    ELSE Upper(nm)

\* line 218
AnymailSettingName(setting) == "ANYMAIL_" \o setting

\* a faulty message that never mentions the bare name
ConfigurationMessageNoBare(anymail_setting, setting, bare) ==
    <<"You must set ", anymail_setting, " or ANYMAIL = {'", setting, "': ...}",
      " in your Django settings">>

\* lines 232-235, as the sequence of the message's pieces
ConfigurationMessage(anymail_setting, setting, bare) ==
    <<"You must set ", anymail_setting, " or ANYMAIL = {'", setting, "': ...}">>
    \o (IF bare THEN <<" or ", setting>> ELSE <<>>)
    \o <<" in your Django settings">>

\* getattr(settings, attr) raises AttributeError
NoAttr(stg, attr) == attr \notin DOMAIN stg

\* lines 226-238: the bare setting, the default, the error
LookupBare(nm, dflt, esp, bare, stg) ==
    LET setting == SettingName(nm, esp)
    IN  IF bare /\ ~NoAttr(stg, setting) THEN Return(stg[setting])
        ELSE IF dflt = UNSET
        THEN Raise("AnymailConfigurationError",
                   ConfigurationMessage(AnymailSettingName(setting), setting, bare))
        ELSE Return(dflt)

\* a faulty lookup that tries settings.ANYMAIL_<setting> first
LookupSettingsFlatFirst(nm, dflt, esp, bare, stg) ==
    LET setting == SettingName(nm, esp)
        anymail_setting == AnymailSettingName(setting)
    IN  IF ~NoAttr(stg, anymail_setting) THEN Return(stg[anymail_setting])
        ELSE IF ~NoAttr(stg, "ANYMAIL") /\ setting \in DOMAIN stg["ANYMAIL"].items
        THEN Return(stg["ANYMAIL"].items[setting])
        ELSE LookupBare(nm, dflt, esp, bare, stg)

\* lines 220-238: settings.ANYMAIL[setting], then settings.ANYMAIL_<setting>,
\* then the rest
LookupSettings(nm, dflt, esp, bare, stg) ==
    LET setting == SettingName(nm, esp)
        anymail_setting == AnymailSettingName(setting)
    IN  IF ~NoAttr(stg, "ANYMAIL") /\ setting \in DOMAIN stg["ANYMAIL"].items
        THEN Return(stg["ANYMAIL"].items[setting])
        ELSE IF ~NoAttr(stg, anymail_setting) THEN Return(stg[anymail_setting])
        ELSE LookupBare(nm, dflt, esp, bare, stg)

\* dict.pop(key) on a dict that has the key: the dict without it
Pop(d, key) == [k \in DOMAIN d \ {key} |-> d[k]]

\* lines 184-238: the outcome and the caller's kwargs after the call
get_anymail_setting(nm, dflt, esp, kw, bare, stg) ==
    IF kw = None \/ nm \notin DOMAIN kw.items
    THEN \* kwargs.pop raised AttributeError or KeyError
         [result |-> LookupSettings(nm, dflt, esp, bare, stg), kwargs |-> kw]
    ELSE LET value == kw.items[nm]
             popped == [kw EXCEPT !.items = Pop(@, nm)]
         IN  IF nm \in {"username", "password"} /\ value = None
             THEN [result |-> LookupSettings(nm, dflt, esp, bare, stg),
                   kwargs |-> popped]
             ELSE [result |-> Return(value), kwargs |-> popped]

Dict(f) == [t |-> "dict", items |-> f]

OtherEsp(esp) == IF esp = None THEN Str("SendGrid") ELSE None

\* the settings a call can meet: ANYMAIL absent or a mapping that may hold
\* the call's key and another ESP's key; attributes that may hold the
\* ANYMAIL_-prefixed name, the bare name and another ESP's prefixed name
SettingsFor(nm, esp) ==
    LET setting == SettingName(nm, esp)
        other == SettingName(nm, OtherEsp(esp))
        maps == {Dict([k \in K |-> Str("ANYMAIL['" \o k \o "']")]) :
                    K \in SUBSET {setting, other}}
        attrs == {[a \in A |-> Str("settings." \o a)] :
                    A \in SUBSET {AnymailSettingName(setting), setting,
                                  AnymailSettingName(other)}}
    IN  attrs \cup {("ANYMAIL" :> m) @@ a : m \in maps, a \in attrs}

KwargsFor(nm) ==
    {None} \cup
    {Dict(f) : f \in UNION {[K -> {None, Str("kwargs")}] :
                               K \in SUBSET {nm, OtherKwarg}}}

InitSetting ==
    /\ pc = "call"
    /\ name \in SettingArgNames
    /\ esp_name \in EspNames
    /\ allow_bare \in BOOLEAN
    /\ default \in SettingDefaults
    /\ kwargs \in KwargsFor(name)
    /\ settings \in SettingsFor(name, esp_name)
    /\ result = Pending
    /\ IdleGetfirst /\ IdleMerge /\ IdleAttachment /\ IdleMethods

GetAnymailSetting ==
    /\ pc = "call"
    /\ LET out == get_anymail_setting(name, default, esp_name, kwargs,
                                      allow_bare, settings)
       IN  /\ result' = out.result
           /\ kwargs' = out.kwargs
    /\ pc' = "done"
    /\ UNCHANGED <<dct, keys, default, name, esp_name, allow_bare, settings>>
    /\ UNCHANGED <<mergeVars, attachmentVars, methodVars>>

NextSetting == GetAnymailSetting

SpecSetting == InitSetting /\ [][NextSetting]_vars

\* The five sources of a call, as the documentation names them, and whether
\* each has a value

TriedSetting ==
    IF esp_name = None THEN Upper(name) ELSE Upper(esp_name.s) \o "_" \o Upper(name)

KwargsAvailable ==
    /\ kwargs # None
    /\ name \in DOMAIN kwargs.items
    /\ ~(name \in {"username", "password"} /\ kwargs.items[name] = None)

MappingAvailable ==
    /\ "ANYMAIL" \in DOMAIN settings
    /\ TriedSetting \in DOMAIN settings["ANYMAIL"].items

PrefixedAvailable == ("ANYMAIL_" \o TriedSetting) \in DOMAIN settings

BareAvailable == allow_bare /\ TriedSetting \in DOMAIN settings

SettingCalled == pc = "call" /\ pc' = "done"

\* C1: get_anymail_setting returns the value of the first available source
\* in the order kwargs[name] (a present None does not count for username and
\* password), settings.ANYMAIL[<ESP>_<NAME>], settings.ANYMAIL_<ESP>_<NAME>,
\* settings.<ESP>_<NAME> (only with allow_bare), default (when not UNSET).
C1_FirstAvailableSourceWins ==
    [][SettingCalled =>
        IF KwargsAvailable THEN result' = Return(kwargs.items[name])
        ELSE IF MappingAvailable
        THEN result' = Return(settings["ANYMAIL"].items[TriedSetting])
        ELSE IF PrefixedAvailable
        THEN result' = Return(settings["ANYMAIL_" \o TriedSetting])
        ELSE IF BareAvailable THEN result' = Return(settings[TriedSetting])
        ELSE IF default # UNSET THEN result' = Return(default)
        ELSE result'.kind = "raise"
    ]_vars

\* get_anymail_setting('username', esp_name='SendGrid', allow_bare=True) has
\* found no SENDGRID_USERNAME in the ANYMAIL mapping and has returned
\* settings.ANYMAIL_SENDGRID_USERNAME, although settings.SENDGRID_USERNAME
\* and a default were there too
C1_Witness ==
    /\ pc = "done"
    /\ name = "username" /\ esp_name = Str("SendGrid") /\ allow_bare
    /\ default = Str("default")
    /\ "ANYMAIL" \in DOMAIN settings
    /\ "SENDGRID_USERNAME" \notin DOMAIN settings["ANYMAIL"].items
    /\ "SENDGRID_USERNAME" \in DOMAIN settings
    /\ "ANYMAIL_SENDGRID_USERNAME" \in DOMAIN settings
    /\ result = Return(Str("settings.ANYMAIL_SENDGRID_USERNAME"))

\* C2: get_anymail_setting removes name from the caller's kwargs exactly
\* when it returns the value found in kwargs, and then only that key; in
\* every other outcome kwargs is left unchanged.
C2_KwargsConsumedOnlyOnSuccess ==
    [][SettingCalled =>
        IF KwargsAvailable
        THEN kwargs' = [kwargs EXCEPT !.items =
                            [k \in DOMAIN @ \ {name} |-> @[k]]]
        ELSE kwargs' = kwargs
    ]_vars

\* the names a message mentions, in order
NamesIn(message) ==
    LET all == UNION {{SettingName(n, e), AnymailSettingName(SettingName(n, e))} :
                        n \in SettingArgNames, e \in EspNames}
    IN  SelectSeq(message, LAMBDA t : t \in all)

\* C3: get_anymail_setting raises the configuration error if and only if no
\* source yields a value and default is UNSET; the message names the
\* ANYMAIL_-prefixed name and the mapping key always, and the bare name
\* exactly when allow_bare is true.
C3_RaisesIffNothingFound ==
    [][SettingCalled =>
        /\ result'.kind = "raise" <=>
                /\ ~KwargsAvailable /\ ~MappingAvailable
                /\ ~PrefixedAvailable /\ ~BareAvailable
                /\ default = UNSET
        /\ result'.kind = "raise" =>
                /\ result'.exc = "AnymailConfigurationError"
                /\ NamesIn(result'.message) =
                        <<"ANYMAIL_" \o TriedSetting, TriedSetting>>
                        \o (IF allow_bare THEN <<TriedSetting>> ELSE <<>>)
    ]_vars

\* get_anymail_setting('api_key', esp_name='SendGrid', allow_bare=True) has
\* raised, with only another ESP's settings defined
C3_Witness ==
    /\ pc = "done"
    /\ name = "api_key" /\ esp_name = Str("SendGrid") /\ allow_bare
    /\ "ANYMAIL" \in DOMAIN settings
    /\ DOMAIN settings["ANYMAIL"].items = {"API_KEY"}
    /\ "ANYMAIL_API_KEY" \in DOMAIN settings
    /\ result.kind = "raise"
    /\ result.message =
            <<"You must set ", "ANYMAIL_SENDGRID_API_KEY", " or ANYMAIL = {'",
              "SENDGRID_API_KEY", "': ...}", " or ", "SENDGRID_API_KEY",
              " in your Django settings">>

-----------------------------------------------------------------------------
(* Attachment *)

\* Header values are sequences of pieces.  A Content-Disposition is made of
\* words, spaces and semicolons; a Content-ID of single characters.
MaxDispositionLen == 3
MaxContentIdLen == 3

DispositionPieces == {"inline", "Inline", "attachment", " ", ";"}
ContentIdChars == {"<", ">", "a", "\""}

DEFAULT_ATTACHMENT_MIME_TYPE == "application/octet-stream"

\* str.lower() on a piece
LowerPiece(w) == IF w = "Inline" THEN "inline" ELSE w

Lower(str) == [i \in 1..Len(str) |-> LowerPiece(str[i])]

\* str.partition(';')[0]: the part before the first semicolon
RECURSIVE BeforeSemicolon(_)
BeforeSemicolon(str) ==
    IF str = <<>> \/ Head(str) = ";" THEN <<>>
    ELSE <<Head(str)>> \o BeforeSemicolon(Tail(str))

\* str.strip(): without leading and trailing whitespace
RECURSIVE LStrip(_)
LStrip(str) ==
    IF str # <<>> /\ Head(str) = " " THEN LStrip(Tail(str)) ELSE str

RECURSIVE RStrip(_)
RStrip(str) ==
    IF str # <<>> /\ str[Len(str)] = " "
    THEN RStrip(SubSeq(str, 1, Len(str) - 1)) ELSE str

Strip(str) == RStrip(LStrip(str))

\* lines 172-181
get_content_disposition(mimeobj) ==
    LET value == mimeobj.content_disposition
    IN  IF value = None THEN None
        ELSE Str(Lower(Strip(BeforeSemicolon(value.s))))

\* email.utils.unquote (imported on line 5): a string of two or more
\* characters loses an enclosing pair of double quotes, or else an enclosing
\* pair of angle brackets.  (In the quoted case it also unescapes backslash
\* sequences, which the characters drawn here never form.)
unquote(str) ==
    IF Len(str) > 1
    THEN IF Head(str) = "\"" /\ str[Len(str)] = "\""
         THEN SubSeq(str, 2, Len(str) - 1)
         ELSE IF Head(str) = "<" /\ str[Len(str)] = ">"
         THEN SubSeq(str, 2, Len(str) - 1)
         ELSE str
    ELSE str

\* mimetypes.guess_type(name)[0] on the file names drawn here
guess_type(filename) == IF filename = "file.png" THEN Str("image/png") ELSE None

\* lines 148-152
InlineFields(att) ==
    IF get_content_disposition(att) = Str(<<"inline">>)
    THEN [inline |-> TRUE,
          content_id |-> att.content_id,
          cid |-> IF att.content_id # None THEN Str(unquote(att.content_id.s))
                  ELSE Str(<<>>)]
    ELSE [inline |-> FALSE, content_id |-> None, cid |-> Str(<<>>)]

\* lines 156-161
GuessMimetype(mimetype, filename) ==
    LET guessed == IF mimetype = None /\ filename # None
                   THEN guess_type(filename.s) ELSE mimetype
    IN  IF guessed = None THEN Str(DEFAULT_ATTACHMENT_MIME_TYPE) ELSE guessed

\* lines 134-161
AttachmentInit(att, encoding) ==
    IF att.t = "MIMEBase"
    THEN LET f == InlineFields(att)
         IN  [_attachment |-> att, encoding |-> encoding,
              inline |-> f.inline, content_id |-> f.content_id, cid |-> f.cid,
              name |-> att.filename, content |-> att.payload,
              mimetype |-> GuessMimetype(att.content_type, att.filename)]
    ELSE [_attachment |-> att, encoding |-> encoding,
          inline |-> FALSE, content_id |-> None, cid |-> Str(<<>>),
          name |-> att.name, content |-> att.content,
          mimetype |-> GuessMimetype(att.mimetype, att.name)]

FileNames == {None, Str("file.png"), Str("file")}

MimeParts ==
    [t : {"MIMEBase"},
     content_disposition :
        {None} \cup {Str(v) : v \in SeqsUpTo(DispositionPieces, MaxDispositionLen)},
     content_id :
        {None} \cup {Str(v) : v \in SeqsUpTo(ContentIdChars, MaxContentIdLen)},
     filename : {None, Str("file.png")},
     payload : {"bytes"},
     content_type : {Str("image/png")}]

Triples ==
    [t : {"tuple"}, name : FileNames, content : {"bytes"},
     mimetype : {None, Str("text/plain")}]

InitAttachment ==
    /\ pc = "call"
    /\ attachment \in MimeParts \cup Triples
    /\ self = Pending
    /\ IdleArgs /\ IdleMerge /\ IdleMethods

NewAttachment ==
    /\ pc = "call"
    /\ self' = AttachmentInit(attachment, "utf-8")
    /\ pc' = "done"
    /\ UNCHANGED <<attachment, argVars, mergeVars, methodVars>>

NextAttachment == NewAttachment

SpecAttachment == InitAttachment /\ [][NextAttachment]_vars

\* a header value without one enclosing pair of angle brackets
WithoutAngleBrackets(str) ==
    IF Len(str) > 1 /\ Head(str) = "<" /\ str[Len(str)] = ">"
    THEN SubSeq(str, 2, Len(str) - 1)
    ELSE str

\* the disposition token: what precedes the first semicolon, without the
\* surrounding whitespace, in lower case
IsInlinePart(att) ==
    /\ att.t = "MIMEBase"
    /\ att.content_disposition # None
    /\ \E k \in 0..Len(att.content_disposition.s) :
        LET v == att.content_disposition.s
            token == SubSeq(v, 1, k)
        IN  /\ k = Len(v) \/ v[k + 1] = ";"
            /\ \A i \in 1..k : v[i] # ";"
            /\ \E w \in 1..k :
                /\ LowerPiece(token[w]) = "inline"
                /\ \A i \in 1..k : i # w => token[i] = " "

\* C7: after constructing an Attachment, inline is true iff the input is a
\* MIME part whose content-disposition token is 'inline'; content_id is the
\* raw Content-ID header in that case and None otherwise; cid is content_id
\* with the angle brackets stripped, and empty whenever content_id is None.
\* From a (name, content, mimetype) triple: inline false, content_id None,
\* cid empty.
C7_InlineContentIdCid ==
    pc = "done" =>
        /\ self.inline <=> IsInlinePart(attachment)
        /\ self.content_id =
                IF self.inline THEN attachment.content_id ELSE None
        /\ self.cid = IF self.content_id = None THEN Str(<<>>)
                      ELSE Str(WithoutAngleBrackets(self.content_id.s))
        /\ attachment.t = "tuple" =>
                ~self.inline /\ self.content_id = None /\ self.cid = Str(<<>>)

-----------------------------------------------------------------------------
(* collect_all_methods *)

\* Classes are numbered 1..NumClasses; 0 is object, which every class without
\* explicit bases derives from and which does not define method_name.  The
\* function object that class c's body defines is named by c.
NumClasses == 4
Object == 0

Range(seq) == {seq[i] : i \in 1..Len(seq)}

Inconsistent == -1

\* The C3 merge behind cls.__mro__: repeatedly take the first head that is in
\* no other list's tail; Inconsistent marks a hierarchy Python refuses.
RECURSIVE C3Merge(_)
C3Merge(lists) ==
    LET live == SelectSeq(lists, LAMBDA l : l # <<>>)
        good == {i \in 1..Len(live) :
                    \A j \in 1..Len(live) : Head(live[i]) \notin Range(Tail(live[j]))}
    IN  IF live = <<>> THEN <<>>
        ELSE IF good = {} THEN <<Inconsistent>>
        ELSE LET i == CHOOSE g \in good : \A o \in good : g <= o
                 h == Head(live[i])
             IN  <<h>> \o C3Merge([k \in 1..Len(live) |->
                                    IF Head(live[k]) = h THEN Tail(live[k])
                                    ELSE live[k]])

\* cls.__mro__ (line 251)
RECURSIVE Mro(_, _)
Mro(b, c) ==
    IF c = Object THEN <<Object>>
    ELSE LET bs == IF b[c] = <<>> THEN <<Object>> ELSE b[c]
         IN  <<c>> \o C3Merge([k \in 1..Len(bs) |-> Mro(b, bs[k])] \o <<bs>>)

NoAttribute == -2

\* getattr(ancestor, method_name), line 253: the definition of the first
\* class of the ancestor's own resolution order that defines the method
GetattrMethod(b, d, ancestor) ==
    LET m == Mro(b, ancestor)
        at == {i \in 1..Len(m) : m[i] \in d}
    IN  IF at = {} THEN NoAttribute
        ELSE m[CHOOSE i \in at : \A j \in at : i <= j]

\* lines 251-258: the loop over cls.__mro__[i..]
RECURSIVE CollectLoop(_, _, _, _, _)
CollectLoop(b, d, mro, i, found) ==
    IF i > Len(mro) THEN found
    ELSE LET validator == GetattrMethod(b, d, mro[i])
         IN  CollectLoop(b, d, mro, i + 1,
                         IF validator # NoAttribute /\ validator \notin Range(found)
                         THEN Append(found, validator) ELSE found)

\* lines 241-259
collect_all_methods(b, d, c) == CollectLoop(b, d, Mro(b, c), 1, <<>>)

\* the base-class tuples class c may have: distinct later-numbered classes
BasesOf(c) ==
    {s \in SeqsUpTo((c + 1)..NumClasses, NumClasses - c) :
        \A i, j \in 1..Len(s) : i # j => s[i] # s[j]}

InitMethods ==
    /\ pc = "call"
    /\ bases \in [1..NumClasses -> UNION {BasesOf(c) : c \in 1..NumClasses}]
    /\ \A c \in 1..NumClasses : bases[c] \in BasesOf(c)
    /\ \A c \in 1..NumClasses : Inconsistent \notin Range(Mro(bases, c))
    /\ defines \in SUBSET (1..NumClasses)
    /\ cls \in 1..NumClasses
    /\ methods = <<>>
    /\ IdleArgs /\ IdleMerge /\ IdleAttachment

CollectAllMethods ==
    /\ pc = "call"
    /\ methods' = collect_all_methods(bases, defines, cls)
    /\ pc' = "done"
    /\ UNCHANGED <<bases, defines, cls, argVars, mergeVars, attachmentVars>>

NextMethods == CollectAllMethods

SpecMethods == InitMethods /\ [][NextMethods]_vars

\* C8: collect_all_methods returns exactly one entry per distinct definition
\* of method_name along the type's resolution order, most-derived first (the
\* order of the defining classes in the resolution order), without
\* duplicates; a class that only inherits the method adds no entry.
C8_OneEntryPerDefinitionInMroOrder ==
    pc = "done" =>
        methods = SelectSeq(Mro(bases, cls), LAMBDA c : c \in defines)

-----------------------------------------------------------------------------
(* What combine and last are said to return *)

\* the position of the last None among the arguments, 0 when there is none
LastNone(as) == SetMax({i \in 1..Len(as) : as[i] = None} \cup {0})

\* the positions of the real values after the last None
Survivors(as) == {i \in 1..Len(as) : i > LastNone(as) /\ IsReal(as[i])}

ArgClasses(as, h) == {h[as[i].id].cls : i \in {j \in 1..Len(as) : IsReal(as[j])}}

\* the union of the survivors' keys, each with its value in the last
\* survivor that has the key
MergedDict(as, h) ==
    LET S == Survivors(as)
        has(k) == {i \in S : k \in DOMAIN h[as[i].id].items}
    IN  [k \in UNION {DOMAIN h[as[i].id].items : i \in S} |->
            h[as[SetMax(has(k))].id].items[k]]

\* the survivors' elements, in argument order
RECURSIVE ConcatFrom(_, _, _)
ConcatFrom(as, h, i) ==
    IF i > Len(as) THEN <<>>
    ELSE (IF IsReal(as[i]) THEN h[as[i].id].elems ELSE <<>>)
            \o ConcatFrom(as, h, i + 1)

MergedList(as, h) == ConcatFrom(as, h, LastNone(as) + 1)

\* C4: combine of mappings (or of sequences) interleaved with None and UNSET
\* returns the left-to-right merge of the real values after the last None:
\* the key-value union with later keys overwriting for mappings, the
\* concatenation for sequences; UNSET when no real value follows the last
\* None.  The merge is taken over the arguments as they were before the call.
C4_CombineMergesSurvivors ==
    [][combineResult' # combineResult =>
        IF Survivors(args) = {} THEN combineResult' = UNSET
        ELSE /\ IsRef(combineResult')
             /\ ArgClasses(args, heap) = {"dict"} =>
                    heap'[combineResult'.id] = DictObj(MergedDict(args, heap))
             /\ ArgClasses(args, heap) = {"list"} =>
                    heap'[combineResult'.id] = ListObj(MergedList(args, heap))
    ]_vars

\* combine(a, None, b, c) has returned: a is dropped, c's value wins over
\* b's on the key they share
C4_Witness ==
    /\ combineResult # Pending
    /\ Len(args) = 4
    /\ IsReal(args[1]) /\ args[2] = None /\ IsReal(args[3]) /\ IsReal(args[4])
    /\ heap[1] = DictObj([k \in {"a"} |-> 1])
    /\ heap[3] = DictObj([k \in {"b"} |-> 1])
    /\ heap[4] = DictObj([k \in {"b"} |-> 2])
    /\ heap[combineResult.id] = DictObj([k \in {"b"} |-> 2])

\* C5: last returns the last argument that is neither UNSET nor None,
\* provided no None occurs after it; it returns UNSET when the last
\* non-UNSET argument is None, when all are UNSET and when there are none.
C5_LastReturnsLastReal ==
    lastResult # Pending =>
        LET N == {i \in 1..Len(args) : args[i] # UNSET}
        IN  lastResult = IF N = {} THEN UNSET
                         ELSE IF args[SetMax(N)] = None THEN UNSET
                         ELSE args[SetMax(N)]

\* last(x, None, y, UNSET) has returned y
C5_Witness ==
    /\ lastResult # Pending
    /\ Len(args) = 4
    /\ IsReal(args[1]) /\ args[2] = None /\ IsReal(args[3]) /\ args[4] = UNSET
    /\ lastResult = args[3]

\* two results are the same value: both UNSET, or objects equal by content
SameValue(a, b) ==
    \/ a = UNSET /\ b = UNSET
    \/ IsRef(a) /\ IsRef(b) /\ heap[a.id] = heap[b.id]

BothReturned == combineResult # Pending /\ lastResult # Pending

\* C9 as stated: on arguments made of integers, None and UNSET, last and
\* combine return the same result.
C9_LastEqualsCombineOnScalars ==
    BothReturned /\ ArgClasses(args, heap) \subseteq {"int"} =>
        SameValue(combineResult, lastResult)

\* C9 as amended: on arguments made of integers, None and UNSET, with at most
\* one integer after the last None, last and combine return the same result.
C9_LastEqualsCombineOnOneSurvivor ==
    /\ BothReturned
    /\ ArgClasses(args, heap) \subseteq {"int"}
    /\ Cardinality(Survivors(args)) <= 1
    => SameValue(combineResult, lastResult)

\* last(1, None, 2) and combine(1, None, 2) have both returned 2
C9_Witness ==
    /\ BothReturned
    /\ Len(args) = 3
    /\ IsReal(args[1]) /\ args[2] = None /\ IsReal(args[3])
    /\ heap[1] = IntObj(1) /\ heap[3] = IntObj(2)
    /\ heap[combineResult.id] = IntObj(2)
    /\ heap[lastResult.id] = IntObj(2)

\* C10: combine never modifies its arguments: every object that existed
\* before the call has the same contents after it.
C10_CombineLeavesArgumentsAlone ==
    [][\A id \in DOMAIN heap : id \in DOMAIN heap' /\ heap'[id] = heap[id]]_vars

\* combine has merged two mappings into a result that differs from both
C10_Witness ==
    /\ combineResult # Pending
    /\ Len(args) = 2
    /\ IsReal(args[1]) /\ IsReal(args[2])
    /\ heap[1] = DictObj([k \in {"a"} |-> 1])
    /\ heap[2] = DictObj([k \in {"b"} |-> 2])
    /\ heap[combineResult.id] = DictObj([k \in {"a", "b"} |-> IF k = "a" THEN 1 ELSE 2])

====
